---- MODULE Spec2Model ----
(***************************************************************************)
(* Hong Kong monthly temperature matrix (src/src/App.jsx).                 *)
(*                                                                         *)
(* The module models the data pipeline (parseRows, buildGrouped,           *)
(* buildCells), the scene drawMatrix leaves in the SVG element, and the    *)
(* App component: its React state, its two effects, the resize observer    *)
(* and the tooltip.                                                        *)
(*                                                                         *)
(* Numbers.  A JavaScript number is a record [k, v]: k = "fin" with v the  *)
(* value in tenths of a degree, k = "inf" with v = 1 or -1, k = "nan", or  *)
(* k = "null" for the null that buildCells stores for an empty month.      *)
(*                                                                         *)
(* Scheduling.  The component runs under a React 18 root: the three        *)
(* setState calls of the load callback are batched into one commit whose   *)
(* passive effects run later (FlushEffects), and a click's state update,   *)
(* commit and effects run inside the click task.  Pending passive effects  *)
(* are flushed before the next update is processed.                        *)
(***************************************************************************)
EXTENDS Integers, Sequences, FiniteSets, TLC

VARIABLES
    mode,           \* useState("max")
    cells,          \* useState([])
    years,          \* useState([])
    loading,        \* useState(true)
    error,          \* useState(null): "" stands for null
    svg,            \* children of the <svg> element, back to front
    svgAttr,        \* width / height attributes render() sets on the <svg>
    observers,      \* connected ResizeObservers, each with its render closure
    tooltip,        \* style.visibility, style.left/top and innerHTML of the tooltip div
    size,           \* getBoundingClientRect() of the container: <<width, height>>
    mounted,        \* the App component is mounted
    loadPending,    \* the d3.csv promise is not settled yet
    effectPending,  \* a commit's draw effect has not run yet
    raw,            \* the rows d3.csv resolved with (load callback local)
    rows,           \* parseRows(raw) (load callback local)
    grouped,        \* buildGrouped(rows).grouped (load callback local)
    stage,          \* position: of the component, or of the pipeline run
    lastOp,         \* history: the last event handled, [name, arg]
    modeLog,        \* history: the mode before each of the last two toggles
    everDrawn,      \* history: drawMatrix has been called
    loadStarts      \* history: number of d3.csv calls

vars == << mode, cells, years, loading, error, svg, svgAttr, observers, tooltip,
           size, mounted, loadPending, effectPending, raw, rows, grouped, stage,
           lastOp, modeLog, everDrawn, loadStarts >>

-----------------------------------------------------------------------------
(* Program constants *)

TEMP_MIN_C == 0
TEMP_MAX_C == 40
WINDOW_YEARS == 10
PADDING_PCT == 4          \* .padding(0.04), in hundredths
MINI_CHART_PADDING == 4
LEGEND_BAR_WIDTH == 18
LEGEND_BAR_HEIGHT == 220

MONTH_NAMES ==
    << "January", "February", "March", "April", "May", "June", "July",
       "August", "September", "October", "November", "December" >>

MARGIN == [top |-> 50, right |-> 130, bottom |-> 20, left |-> 90]

(* Bounds of the model *)

MaxRows == 2        \* rows of a fetched file in the component's runs
MaxPipeRows == 3    \* rows of a file in the pipeline's runs
SweepSpan == 11     \* the year sweeps cover SweepSpan consecutive years

-----------------------------------------------------------------------------
(* JavaScript numbers *)

Fin(v) == [k |-> "fin", v |-> v]
PosInf == [k |-> "inf", v |-> 1]
NegInf == [k |-> "inf", v |-> -1]
NaN == [k |-> "nan", v |-> 0]
Null == [k |-> "null", v |-> 0]

\* a < b on numbers (false whenever NaN is involved)
NumLt(a, b) ==
    CASE a.k = "nan" \/ b.k = "nan" -> FALSE
      [] a.k = "fin" /\ b.k = "fin" -> a.v < b.v
      [] a.k = "inf" /\ b.k = "inf" -> a.v < b.v
      [] a.k = "inf" -> a.v < 0
      [] OTHER -> b.v > 0

IsFinite(a) == a.k = "fin"

\* the global isNaN(x)
IsNaN(a) == a.k = "nan"

\* unary plus applied to a CSV field
ToNumber(f) ==
    CASE f.k = "dec" -> Fin(f.v)
      [] f.k = "empty" -> Fin(0)
      [] f.k = "inf" -> [k |-> "inf", v |-> f.v]
      [] OTHER -> NaN

-----------------------------------------------------------------------------
(* Sequence helpers *)

RECURSIVE MapSeq(_, _)
MapSeq(F(_), s) == IF s = << >> THEN << >> ELSE << F(Head(s)) >> \o MapSeq(F, Tail(s))

\* the elements of s in order of first appearance: [...new Set(s)]
RECURSIVE SetOrder(_)
SetOrder(s) ==
    IF s = << >> THEN << >>
    ELSE LET init == SetOrder(SubSeq(s, 1, Len(s) - 1))
             x == s[Len(s)]
         IN IF \E i \in 1..Len(init) : init[i] = x THEN init ELSE Append(init, x)

RECURSIVE InsertAsc(_, _)
InsertAsc(x, s) ==
    IF s = << >> THEN << x >>
    ELSE IF x - Head(s) < 0 THEN << x >> \o s
    ELSE << Head(s) >> \o InsertAsc(x, Tail(s))

\* Array.prototype.sort((a, b) => a - b): stable, ascending
RECURSIVE SortAsc(_)
SortAsc(s) ==
    IF s = << >> THEN << >>
    ELSE InsertAsc(s[Len(s)], SortAsc(SubSeq(s, 1, Len(s) - 1)))

\* d3.max / d3.min over numbers: NaN is skipped, undefined on no value
RECURSIVE D3MaxNum(_)
D3MaxNum(s) ==
    IF s = << >> THEN NaN
    ELSE LET m == D3MaxNum(SubSeq(s, 1, Len(s) - 1))
             x == s[Len(s)]
         IN IF IsNaN(x) THEN m
            ELSE IF IsNaN(m) THEN x
            ELSE IF NumLt(m, x) THEN x ELSE m

RECURSIVE D3MinNum(_)
D3MinNum(s) ==
    IF s = << >> THEN NaN
    ELSE LET m == D3MinNum(SubSeq(s, 1, Len(s) - 1))
             x == s[Len(s)]
         IN IF IsNaN(x) THEN m
            ELSE IF IsNaN(m) THEN x
            ELSE IF NumLt(x, m) THEN x ELSE m

-----------------------------------------------------------------------------
(* Row Parser: parseRows *)

\* d3.timeParse("%Y-%m-%d"): null when the text does not match the format
ParseDate(t) ==
    IF t.fmt = "ymd"
    THEN [isNull |-> FALSE, y |-> t.y, m |-> t.m, d |-> t.d]
    ELSE [isNull |-> TRUE, y |-> 0, m |-> 0, d |-> 0]

\* the object the .map callback builds from one raw row (date is not null)
MapRow(r) ==
    LET date == ParseDate(r.date)
    IN [ date  |-> << date.y, date.m, date.d >>,
         year  |-> date.y,
         month |-> date.m,
         day   |-> date.d,
         max   |-> ToNumber(r.max_temperature),
         min   |-> ToNumber(r.min_temperature) ]

\* the .filter callback
KeepRow(d) == ~IsNaN(d.max) /\ ~IsNaN(d.min)

\* date.getFullYear() on a null date throws a TypeError inside .map
MapThrows(rawRows) == \E i \in 1..Len(rawRows) : ParseDate(rawRows[i].date).isNull

parseRows(rawRows) ==
    IF MapThrows(rawRows)
    THEN [threw |-> TRUE, rows |-> << >>]
    ELSE [threw |-> FALSE, rows |-> SelectSeq(MapSeq(MapRow, rawRows), KeepRow)]

-----------------------------------------------------------------------------
(* Temporal Grouper: buildGrouped *)

YearOf(d) == d.year

\* d3.max(rows, d => d.year): undefined for no rows
RECURSIVE D3MaxYear(_)
D3MaxYear(rs) ==
    IF rs = << >> THEN [def |-> FALSE, v |-> 0]
    ELSE LET m == D3MaxYear(SubSeq(rs, 1, Len(rs) - 1))
             y == rs[Len(rs)].year
         IN IF ~m.def \/ y > m.v THEN [def |-> TRUE, v |-> y] ELSE m

\* mutant of InWindow: the window bound compared with >= (eleven years)
InWindowInclusive(d, maxYear) == maxYear.def /\ d.year >= maxYear.v - WINDOW_YEARS

\* d.year > maxYear - 10 (false against undefined - 10 = NaN)
InWindow(d, maxYear) == maxYear.def /\ d.year > maxYear.v - WINDOW_YEARS

FilterWindow(rs, maxYear) == SelectSeq(rs, LAMBDA d : InWindow(d, maxYear))

\* d3.group(filtered, d => d.year, d => d.month)
GroupByYearMonth(filtered) ==
    LET ys == { filtered[i].year : i \in 1..Len(filtered) }
        ms(y) == { filtered[i].month : i \in { j \in 1..Len(filtered) : filtered[j].year = y } }
    IN [ y \in ys |->
           [ m \in ms(y) |-> SelectSeq(filtered, LAMBDA d : d.year = y /\ d.month = m) ] ]

\* [...new Set(filtered.map(d => d.year))].sort((a, b) => a - b)
YearsOf(filtered) == SortAsc(SetOrder(MapSeq(YearOf, filtered)))

\* mutant of buildGrouped: years is taken from all the rows, not the filtered
buildGroupedYearsOfAllRows(rs) ==
    LET maxYear == D3MaxYear(rs)
        filtered == FilterWindow(rs, maxYear)
    IN [grouped |-> GroupByYearMonth(filtered), years |-> YearsOf(rs), maxYear |-> maxYear]

buildGrouped(rs) ==
    LET maxYear == D3MaxYear(rs)
        filtered == FilterWindow(rs, maxYear)
    IN [grouped |-> GroupByYearMonth(filtered), years |-> YearsOf(filtered), maxYear |-> maxYear]

-----------------------------------------------------------------------------
(* Cell Aggregator: buildCells *)

\* mutant of MinOf: the minimum is taken over the daily maxima
MinOfReadsMax(d) == d.max

MaxOf(d) == d.max
MinOf(d) == d.min

\* the object pushed for one (year, month)
MakeCell(monthMap, year, month) ==
    LET days == IF month \in DOMAIN monthMap THEN monthMap[month] ELSE << >>
    IN [ year   |-> year,
         month  |-> month,
         days   |-> days,
         absMax |-> IF Len(days) > 0 THEN D3MaxNum(MapSeq(MaxOf, days)) ELSE Null,
         absMin |-> IF Len(days) > 0 THEN D3MinNum(MapSeq(MinOf, days)) ELSE Null ]

\* mutant of CellsOfYear: months without records get no cell
CellsOfYearSkippingEmpty(g, year) ==
    IF year \notin DOMAIN g THEN << >>
    ELSE SelectSeq([ month \in 1..12 |-> MakeCell(g[year], year, month) ],
                   LAMBDA c : Len(c.days) > 0)

\* the body of years.forEach for one year
CellsOfYear(g, year) ==
    IF year \notin DOMAIN g THEN << >>
    ELSE [ month \in 1..12 |-> MakeCell(g[year], year, month) ]

RECURSIVE buildCells(_, _)
buildCells(g, ys) ==
    IF ys = << >> THEN << >>
    ELSE CellsOfYear(g, Head(ys)) \o buildCells(g, Tail(ys))

-----------------------------------------------------------------------------
(* Renderer: drawMatrix and what it calls *)

Color(pal, pos) == [pal |-> pal, pos |-> pos]

NeutralFill == Color("#eee", 0)

\* COLOR_SCALE(temp): position on the reversed RdYlBu ramp, in tenths of a
\* degree; the ramp clamps its argument, so values outside 0..40 map to an end
COLOR_SCALE(temp) ==
    CASE temp.k = "fin" ->
           Color("RdYlBu", IF temp.v < TEMP_MIN_C * 10 THEN TEMP_MIN_C * 10
                           ELSE IF temp.v > TEMP_MAX_C * 10 THEN TEMP_MAX_C * 10
                           ELSE temp.v)
      [] temp.k = "inf" ->
           Color("RdYlBu", IF temp.v > 0 THEN TEMP_MAX_C * 10 ELSE TEMP_MIN_C * 10)
      [] OTHER -> Color("rgb(NaN)", 0)

\* an exact fraction n / d with d > 0, not reduced (pixel coordinates)
Rat(n, d) == [n |-> n, d |-> d]

RatInt(i) == Rat(i, 1)

RatAdd(a, b) ==
    IF a.d = b.d THEN Rat(a.n + b.n, a.d)
    ELSE Rat(a.n * b.d + b.n * a.d, a.d * b.d)

RatHalf(a) == Rat(a.n, 2 * a.d)

RatSub(a, b) == Rat(a.n * b.d - b.n * a.d, a.d * b.d)

\* d3.scaleBand().domain(<n values>).range([r0, r1]).padding(0.04)
BandScale(n, r0, r1) == [n |-> n, r0 |-> r0, r1 |-> r1]

\* rescale(): start < stop whatever the order of the range, and
\* step = (stop - start) / Math.max(1, n - paddingInner + paddingOuter * 2),
\* here in hundredths: the divisor is BandDen / 100
BandStart(sc) == IF sc.r1 < sc.r0 THEN sc.r1 ELSE sc.r0
BandSpan(sc) == IF sc.r1 < sc.r0 THEN sc.r0 - sc.r1 ELSE sc.r1 - sc.r0
BandDen(sc) ==
    IF 100 * sc.n + PADDING_PCT < 100 THEN 100 ELSE 100 * sc.n + PADDING_PCT

\* scale.bandwidth() = step * (1 - paddingInner)
Bandwidth(sc) == Rat((100 - PADDING_PCT) * BandSpan(sc), BandDen(sc))

\* scale(value) for the i-th value of the domain (i from 1): start + step * k
\* with start moved by (stop - start - step * (n - paddingInner)) * align, and
\* the values reversed when the range is
BandPosition(sc, i) ==
    LET k == IF sc.r1 < sc.r0 THEN sc.n - i ELSE i - 1
        den == BandDen(sc)
    IN Rat(2 * den * BandStart(sc)
             + BandSpan(sc) * (den - (100 * sc.n - PADDING_PCT))
             + 200 * BandSpan(sc) * k,
           2 * den)

\* the index of a year in the x scale's domain
IndexOf(ys, y) == CHOOSE i \in 1..Len(ys) : ys[i] = y

\* statements in sequence on the one svg node: the next statement works on
\* the result of the previous one
Then(x, F(_)) == CHOOSE r \in { F(v) : v \in { x } } : TRUE

\* an element of the scene
Element(cls, year, month, text, fill, kids, hoverMode, absMax, absMin) ==
    [ cls |-> cls, year |-> year, month |-> month, text |-> text, fill |-> fill,
      kids |-> kids, hoverMode |-> hoverMode, absMax |-> absMax, absMin |-> absMin,
      x |-> RatInt(0), y |-> RatInt(0), w |-> RatInt(0), h |-> RatInt(0) ]

\* the position attributes (x / y or translate) and the size of an element
At(el, x, y, w, h) == [ el EXCEPT !.x = x, !.y = y, !.w = w, !.h = h ]

YearLabel(y) ==
    Element("year-label", y, 0, ToString(y), Color("#333", 0), << >>, "", Null, Null)

MonthLabel(m) ==
    Element("month-label", 0, m, MONTH_NAMES[m], Color("#333", 0), << >>, "", Null, Null)

\* selectAll(cls).data(data).join(...): the elements of the class already in
\* the parent are updated in order, surplus ones removed, missing ones appended
RECURSIVE JoinByIndex(_, _, _, _)
JoinByIndex(children, cls, data, r) ==
    IF children = << >> THEN SubSeq(data, r, Len(data))
    ELSE IF Head(children).cls = cls
         THEN (IF r <= Len(data) THEN << data[r] >> ELSE << >>)
                \o JoinByIndex(Tail(children), cls, data, r + 1)
         ELSE << Head(children) >> \o JoinByIndex(Tail(children), cls, data, r)

drawAxes(children, ys, xScale, yScale) ==
    LET yearLabels ==
            [ i \in 1..Len(ys) |->
                At(YearLabel(ys[i]),
                   RatAdd(BandPosition(xScale, i), RatHalf(Bandwidth(xScale))),
                   RatInt(MARGIN.top - 10), RatInt(0), RatInt(0)) ]
        monthLabels ==
            [ m \in 1..12 |->
                At(MonthLabel(m),
                   RatInt(MARGIN.left - 8),
                   RatAdd(BandPosition(yScale, m), RatHalf(Bandwidth(yScale))),
                   RatInt(0), RatInt(0)) ]
    IN Then(JoinByIndex(children, "year-label", yearLabels, 1),
            LAMBDA withYears : JoinByIndex(withYears, "month-label", monthLabels, 1))

\* svg.append("defs") and svg.append("g") of class legend, with the bar
drawLegend(children, totalWidth) ==
    children \o
    << Element("defs", 0, 0, "", Color("url(#legend-gradient)", 0),
               << "linearGradient" >>, "", Null, Null),
       At(Element("legend", 0, 0, "", Color("url(#legend-gradient)", 0),
                  << "rect", "g.axis", "text.cold", "text.hot" >>, "", Null, Null),
          RatInt(totalWidth - MARGIN.right + 20), RatInt(MARGIN.top + 20),
          RatInt(LEGEND_BAR_WIDTH), RatInt(LEGEND_BAR_HEIGHT)) >>

\* the range of the mini chart's x scale: [p, bw - p]
MiniXRange(bw) ==
    << RatInt(MINI_CHART_PADDING), RatSub(bw, RatInt(MINI_CHART_PADDING)) >>

\* the range of the mini chart's y scale: [bh - p, p]
MiniYRange(bh) ==
    << RatSub(bh, RatInt(MINI_CHART_PADDING)), RatInt(MINI_CHART_PADDING) >>

\* the two paths drawMiniChart appends to a cell group
drawMiniChart(kids, cellData) ==
    IF Len(cellData.days) = 0 THEN kids
    ELSE kids \o << "path.max", "path.min" >>

\* mutant of CellFill: the colour is keyed to absMax whatever the mode
CellFillMaxOnly(d, m) ==
    IF d.absMax.k # "null" THEN COLOR_SCALE(d.absMax) ELSE NeutralFill

\* the fill of the background rectangle
CellFill(d, m) ==
    LET temp == IF m = "max" THEN d.absMax ELSE d.absMin
    IN IF temp.k # "null" THEN COLOR_SCALE(temp) ELSE NeutralFill

\* mutant of HasDays: the filter keeps every cell
HasDaysOrNot(d) == TRUE

\* cells.filter(d => d.days.length > 0)
HasDays(d) == Len(d.days) > 0

\* one joined <g class="cell"> with its background, mini chart and overlay;
\* the overlay's mousemove listener closes over the mode of this render
CellGroup(d, m) ==
    Element("cell", d.year, d.month, "", CellFill(d, m),
            Append(drawMiniChart(<< "rect.bg" >>, d), "rect.overlay"),
            m, d.absMax, d.absMin)

\* the key function d => `${d.year}-${d.month}`
SameKey(el, d) == el.cls = "cell" /\ el.year = d.year /\ el.month = d.month

\* selectAll(".cell").data(shown, key).join("g") and the appends to every
\* joined group: a group already there keeps its children and gets the new
\* ones on top, a group without datum is removed, a new group is appended
JoinCells(children, shown, m, xScale, yScale, ys) ==
    LET Placed(d, oldKids) ==
            LET g == CellGroup(d, m)
            IN At([ g EXCEPT !.kids = oldKids \o g.kids ],
                  BandPosition(xScale, IndexOf(ys, d.year)),
                  BandPosition(yScale, d.month),
                  Bandwidth(xScale), Bandwidth(yScale))
        Datum(el) == CHOOSE i \in 1..Len(shown) : SameKey(el, shown[i])
        Stays(el) == el.cls # "cell" \/ \E i \in 1..Len(shown) : SameKey(el, shown[i])
        kept == SelectSeq(children, Stays)
        updated == [ i \in 1..Len(kept) |->
                       IF kept[i].cls = "cell"
                       THEN Placed(shown[Datum(kept[i])], kept[i].kids)
                       ELSE kept[i] ]
        entering == SelectSeq(shown,
                              LAMBDA d : ~\E i \in 1..Len(children) : SameKey(children[i], d))
    IN updated \o [ i \in 1..Len(entering) |-> Placed(entering[i], << >>) ]

\* mutant of ClearSvg: the previous render is not removed
ClearSvgKeepsAll(children) == children

\* svg.selectAll("*").remove()
ClearSvg(children) == << >>

\* chartWidth / chartHeight: the drawing area inside the margins
ChartWidth(totalWidth) == totalWidth - MARGIN.left - MARGIN.right
ChartHeight(totalHeight) == totalHeight - MARGIN.top - MARGIN.bottom

XScale(ys, totalWidth) ==
    BandScale(Len(ys), MARGIN.left, MARGIN.left + ChartWidth(totalWidth))

YScale(totalHeight) ==
    BandScale(12, MARGIN.top, MARGIN.top + ChartHeight(totalHeight))

drawMatrix(children, cs, ys, m, totalWidth, totalHeight) ==
    LET xScale == XScale(ys, totalWidth)
        yScale == YScale(totalHeight)
    IN Then(ClearSvg(children), LAMBDA cleared :
       Then(drawAxes(cleared, ys, xScale, yScale), LAMBDA axes :
       Then(drawLegend(axes, totalWidth), LAMBDA base :
            JoinCells(base, SelectSeq(cs, HasDays), m, xScale, yScale, ys))))

-----------------------------------------------------------------------------
(* Interaction Controller: the App component *)

NoError == ""

\* {!loading && !error && (<div ref={containerRef}> <svg ref={svgRef}/> </div>)}
ContainerMounted(ld, err, mt) == mt /\ ~ld /\ err = NoError

\* the part of the state the draw effect and render() write
Surface(s, a, o, e) == [svg |-> s, svgAttr |-> a, observers |-> o, everDrawn |-> e]

Closure(cs, ys, m) == [cells |-> cs, years |-> ys, mode |-> m]

\* render(): the inner function of the draw effect, also the observer callback
Render(sf, rc, present, sz) ==
    IF ~present THEN sf
    ELSE [ sf EXCEPT !.svg = drawMatrix(sf.svg, rc.cells, rc.years, rc.mode, sz[1], sz[2]),
                     !.svgAttr = sz,
                     !.everDrawn = TRUE ]

\* mutant of DrawEffectReturnsEarly: the guard forgets cells.length
DrawEffectIgnoresCells(cs, present) == ~present

\* if (!cells.length || !svgRef.current || !containerRef.current) return;
DrawEffectReturnsEarly(cs, present) == Len(cs) = 0 \/ ~present

\* the draw effect: render once, then observe the container
DrawEffect(sf, cs, ys, m, present, sz) ==
    IF DrawEffectReturnsEarly(cs, present) THEN sf
    ELSE LET rc == Closure(cs, ys, m)
         IN Then(Render(sf, rc, present, sz), LAMBDA r :
                 [ r EXCEPT !.observers = Append(r.observers, rc) ])

\* mutant of Cleanup: the effect returns no cleanup
CleanupForgotten(sf) == sf

\* the cleanup the last effect run returned: resizeObserver.disconnect()
Cleanup(sf) ==
    IF sf.observers = << >> THEN sf
    ELSE [ sf EXCEPT !.observers = SubSeq(sf.observers, 1, Len(sf.observers) - 1) ]

\* mutant of RerunDrawEffect: the effect runs again without the cleanup
RerunWithoutCleanup(sf, cs, ys, m, present, sz) ==
    DrawEffect(sf, cs, ys, m, present, sz)

\* a commit whose draw-effect dependencies changed: cleanup, then the effect
RerunDrawEffect(sf, cs, ys, m, present, sz) ==
    Then(sf, LAMBDA before :
    Then(Cleanup(before), LAMBDA cleaned :
         DrawEffect(cleaned, cs, ys, m, present, sz)))

\* mutant of NotifyObservers: the callback renders in max-view whatever the
\* mode of its closure
NotifyObserversInMaxView(sf, obs, present, sz) ==
    IF obs = << >> THEN sf
    ELSE Render(sf, [ obs[Len(obs)] EXCEPT !.mode = "max" ], present, sz)

\* the resize observers' callbacks, in the order the observers were created
RECURSIVE NotifyObservers(_, _, _, _)
NotifyObservers(sf, obs, present, sz) ==
    IF obs = << >> THEN sf
    ELSE Then(Render(sf, Head(obs), present, sz), LAMBDA drawn :
              NotifyObservers(drawn, Tail(obs), present, sz))

\* mutant of toggleMode: the click sets min-view instead of flipping
toggleModeToMin(current) == "min"

\* setMode(current => current === "max" ? "min" : "max")
toggleMode(current) == IF current = "max" THEN "min" ELSE "max"

\* String(month).padStart(2, "0")
PadStart2(n) == IF n < 10 THEN "0" \o ToString(n) ELSE ToString(n)

\* temp.toFixed(1) of a number held in tenths
ToFixed1(temp) ==
    CASE temp.k = "fin" ->
           LET a == IF temp.v < 0 THEN 0 - temp.v ELSE temp.v
           IN (IF temp.v < 0 THEN "-" ELSE "")
                \o ToString(a \div 10) \o "." \o ToString(a % 10)
      [] temp.k = "inf" -> IF temp.v > 0 THEN "Infinity" ELSE "-Infinity"
      [] OTHER -> "NaN"

HiddenTooltip == [visibility |-> "hidden", left |-> "", top |-> "", innerHTML |-> ""]

\* handleCellHover(event, d, currentMode)
handleCellHover(event, d, currentMode) ==
    LET temp == IF currentMode = "max" THEN d.absMax ELSE d.absMin
        label == IF currentMode = "max" THEN "max" ELSE "min"
    IN [ visibility |-> "visible",
         left |-> ToString(event[1] + 14) \o "px",
         top  |-> ToString(event[2] - 10) \o "px",
         innerHTML |->
             "<strong>Date:</strong> " \o ToString(d.year) \o "-" \o PadStart2(d.month)
               \o "<br/>" \o "<strong>" \o label \o ":</strong> "
               \o (IF temp.k # "null" THEN ToFixed1(temp) ELSE "N/A") \o " °C" ]

\* handleCellLeave()
handleCellLeave(tip) == [ tip EXCEPT !.visibility = "hidden" ]

-----------------------------------------------------------------------------
(* Inputs: the files d3.csv can resolve with, and the environment *)

Dec(v) == [k |-> "dec", v |-> v]          \* a decimal literal, e.g. "32.5"
EmptyField == [k |-> "empty", v |-> 0]    \* ""
TextField == [k |-> "text", v |-> 0]      \* e.g. "abc"
InfField == [k |-> "inf", v |-> 1]        \* "Infinity"
AbsentField == [k |-> "absent", v |-> 0]  \* the column is missing: undefined

Ymd(y, m, d) == [fmt |-> "ymd", y |-> y, m |-> m, d |-> d]   \* "YYYY-MM-DD"
BadDate == [fmt |-> "other", y |-> 0, m |-> 0, d |-> 0]      \* e.g. "01/06/2017"

RawRow(dt, mx, mn) == [date |-> dt, max_temperature |-> mx, min_temperature |-> mn]

SeqsUpTo(S, n) == UNION { [1..k -> S] : k \in 0..n }

AppRowChoices ==
    { RawRow(Ymd(2017, 6, 1), Dec(325), Dec(271)),
      RawRow(Ymd(2017, 6, 2), Dec(330), Dec(265)),
      RawRow(Ymd(2007, 1, 5), Dec(180), Dec(120)),
      RawRow(Ymd(2016, 6, 1), Dec(310), TextField),
      RawRow(Ymd(2017, 7, 1), EmptyField, Dec(260)),
      RawRow(Ymd(2017, 8, 1), InfField, Dec(250)),
      RawRow(BadDate, Dec(300), Dec(200)) }

AppInputs == SeqsUpTo(AppRowChoices, MaxRows)

PipeRowChoices ==
    AppRowChoices \cup
    { RawRow(Ymd(2016, 6, 1), Dec(310), Dec(250)),
      RawRow(Ymd(2008, 12, 31), Dec(-5), Dec(-12)),
      RawRow(Ymd(2017, 6, 3), AbsentField, Dec(240)),
      RawRow(Ymd(2017, 6, 4), Dec(290), EmptyField) }

\* one row per year of a set of years, ascending or descending
RECURSIVE SweepRows(_, _)
SweepRows(S, desc) ==
    IF S = { } THEN << >>
    ELSE LET y == CHOOSE x \in S : \A z \in S : x <= z
             r == RawRow(Ymd(y, 1 + (y % 12), 1), Dec(200 + (y % 7)), Dec(150 - (y % 5)))
             rest == SweepRows(S \ { y }, desc)
         IN IF desc THEN Append(rest, r) ELSE << r >> \o rest

SweepYears == 2007..(2006 + SweepSpan)

PipeInputs ==
    SeqsUpTo(PipeRowChoices, MaxPipeRows)
      \cup { SweepRows(S, desc) : S \in SUBSET SweepYears, desc \in BOOLEAN }

Sizes == { << 800, 600 >>, << 1000, 700 >>, << 200, 60 >> }
Pointers == { << 120, 80 >>, << 400, 300 >> }

TypeErrorMessage == "Cannot read properties of null (reading 'getFullYear')"
FetchErrorMessage == "404 Not Found"

-----------------------------------------------------------------------------
(* The component: initial state and events *)

Op(name, arg) == [name |-> name, arg |-> arg]

CurrentSurface == Surface(svg, svgAttr, observers, everDrawn)

SetSurface(sf) ==
    \E after \in { sf } :
        /\ svg' = after.svg
        /\ svgAttr' = after.svgAttr
        /\ observers' = after.observers
        /\ everDrawn' = after.everDrawn

\* pending passive effects run before the next update is processed
Flushed(sf) ==
    IF effectPending
    THEN RerunDrawEffect(sf, cells, years, mode,
                         ContainerMounted(loading, error, mounted), size)
    ELSE sf

\* after the first render and the mount effects: d3.csv is in flight and the
\* draw effect has run against the empty cells
Init ==
    /\ mode = "max"
    /\ cells = << >>
    /\ years = << >>
    /\ loading = TRUE
    /\ error = NoError
    /\ size \in Sizes
    /\ mounted = TRUE
    /\ LET sf == DrawEffect(Surface(<< >>, << 0, 0 >>, << >>, FALSE), << >>, << >>, "max",
                            ContainerMounted(TRUE, NoError, TRUE), size)
       IN /\ svg = sf.svg
          /\ svgAttr = sf.svgAttr
          /\ observers = sf.observers
          /\ everDrawn = sf.everDrawn
    /\ tooltip = HiddenTooltip
    /\ loadPending = TRUE
    /\ effectPending = FALSE
    /\ raw = << >>
    /\ rows = << >>
    /\ grouped = << >>
    /\ stage = "app"
    /\ lastOp = Op("init", 0)
    /\ modeLog = << >>
    /\ loadStarts = 1

\* the load effect's dependency list is []: it runs on mount only
LoadEffectReruns == FALSE

\* d3.csv resolved: the .then callback, and the .catch callback when it throws
LoadResolved(rawRows) ==
    /\ stage = "app"
    /\ loadPending
    /\ loadPending' = FALSE
    /\ raw' = rawRows
    /\ lastOp' = Op("loadResolved", Len(rawRows))
    /\ LET p == parseRows(rawRows)
           g == buildGrouped(p.rows)
       IN IF p.threw
          THEN /\ rows' = rows
               /\ grouped' = grouped
               /\ IF mounted
                  THEN error' = TypeErrorMessage /\ loading' = FALSE
                  ELSE UNCHANGED << error, loading >>
               /\ UNCHANGED << cells, years, effectPending >>
          ELSE /\ rows' = p.rows
               /\ grouped' = g.grouped
               /\ IF mounted
                  THEN /\ cells' = buildCells(g.grouped, g.years)
                       /\ years' = g.years
                       /\ loading' = FALSE
                       /\ effectPending' = TRUE
                  ELSE UNCHANGED << cells, years, loading, effectPending >>
               /\ error' = error
    /\ UNCHANGED << mode, svg, svgAttr, observers, tooltip, size, mounted, stage,
                    modeLog, everDrawn, loadStarts >>

\* mutant of LoadRejected: the .catch callback forgets setLoading(false)
LoadRejectedStillLoading ==
    /\ stage = "app"
    /\ loadPending
    /\ loadPending' = FALSE
    /\ lastOp' = Op("loadRejected", 0)
    /\ IF mounted THEN error' = FetchErrorMessage ELSE UNCHANGED error
    /\ UNCHANGED << mode, cells, years, loading, svg, svgAttr, observers, tooltip, size,
                    mounted, effectPending, raw, rows, grouped, stage, modeLog, everDrawn,
                    loadStarts >>

\* d3.csv rejected (the file cannot be fetched): the .catch callback
LoadRejected ==
    /\ stage = "app"
    /\ loadPending
    /\ loadPending' = FALSE
    /\ lastOp' = Op("loadRejected", 0)
    /\ IF mounted
       THEN error' = FetchErrorMessage /\ loading' = FALSE
       ELSE UNCHANGED << error, loading >>
    /\ UNCHANGED << mode, cells, years, svg, svgAttr, observers, tooltip, size, mounted,
                    effectPending, raw, rows, grouped, stage, modeLog, everDrawn,
                    loadStarts >>

\* the draw effect of the load's commit runs
FlushEffects ==
    /\ stage = "app"
    /\ mounted
    /\ effectPending
    /\ effectPending' = FALSE
    /\ SetSurface(Flushed(CurrentSurface))
    /\ lastOp' = Op("flushEffects", 0)
    /\ UNCHANGED << mode, cells, years, loading, error, tooltip, size, mounted,
                    loadPending, raw, rows, grouped, stage, modeLog, loadStarts >>

\* mutant of Toggle: the re-render puts the tooltip back to its initial props
ToggleResetsTooltip ==
    /\ stage = "app"
    /\ mounted
    /\ mode' = toggleMode(mode)
    /\ effectPending' = FALSE
    /\ SetSurface(RerunDrawEffect(Flushed(CurrentSurface), cells, years, mode',
                                  ContainerMounted(loading, error, mounted), size))
    /\ loadStarts' = IF LoadEffectReruns THEN loadStarts + 1 ELSE loadStarts
    /\ modeLog' = IF Len(modeLog) < 2 THEN Append(modeLog, mode)
                  ELSE << modeLog[2], mode >>
    /\ lastOp' = Op("toggle", 0)
    /\ tooltip' = HiddenTooltip
    /\ UNCHANGED << cells, years, loading, error, size, mounted, loadPending,
                    raw, rows, grouped, stage >>

\* a click on the button: toggleMode, the re-render, the draw effect's re-run
Toggle ==
    /\ stage = "app"
    /\ mounted
    /\ mode' = toggleMode(mode)
    /\ effectPending' = FALSE
    /\ SetSurface(RerunDrawEffect(Flushed(CurrentSurface), cells, years, mode',
                                  ContainerMounted(loading, error, mounted), size))
    /\ loadStarts' = IF LoadEffectReruns THEN loadStarts + 1 ELSE loadStarts
    /\ modeLog' = IF Len(modeLog) < 2 THEN Append(modeLog, mode)
                  ELSE << modeLog[2], mode >>
    /\ lastOp' = Op("toggle", 0)
    /\ UNCHANGED << cells, years, loading, error, tooltip, size, mounted, loadPending,
                    raw, rows, grouped, stage >>

\* the container's box changes (or is first observed): observers are notified
Resize(sz) ==
    /\ stage = "app"
    /\ size' = sz
    /\ SetSurface(NotifyObservers(CurrentSurface, observers,
                                  ContainerMounted(loading, error, mounted), sz))
    /\ lastOp' = Op("resize", 0)
    /\ UNCHANGED << mode, cells, years, loading, error, tooltip, mounted, loadPending,
                    effectPending, raw, rows, grouped, stage, modeLog, loadStarts >>

HasOverlay(el) == \E j \in 1..Len(el.kids) : el.kids[j] = "rect.overlay"

\* mousemove over the overlay of the i-th element of the scene
Hover(i, event) ==
    /\ stage = "app"
    /\ mounted
    /\ i \in 1..Len(svg)
    /\ HasOverlay(svg[i])
    /\ tooltip' = handleCellHover(event, svg[i], svg[i].hoverMode)
    /\ lastOp' = Op("hover", i)
    /\ UNCHANGED << mode, cells, years, loading, error, svg, svgAttr, observers, size,
                    mounted, loadPending, effectPending, raw, rows, grouped, stage,
                    modeLog, everDrawn, loadStarts >>

\* mouseleave from an overlay
Leave ==
    /\ stage = "app"
    /\ mounted
    /\ \E i \in 1..Len(svg) : HasOverlay(svg[i])
    /\ tooltip' = handleCellLeave(tooltip)
    /\ lastOp' = Op("leave", 0)
    /\ UNCHANGED << mode, cells, years, loading, error, svg, svgAttr, observers, size,
                    mounted, loadPending, effectPending, raw, rows, grouped, stage,
                    modeLog, everDrawn, loadStarts >>

\* the component is torn down: effect cleanups run and its DOM is removed
Unmount ==
    /\ stage = "app"
    /\ mounted
    /\ mounted' = FALSE
    /\ effectPending' = FALSE
    /\ LET sf == Cleanup(Flushed(CurrentSurface))
       IN SetSurface([ sf EXCEPT !.svg = << >> ])
    /\ lastOp' = Op("unmount", 0)
    /\ UNCHANGED << mode, cells, years, loading, error, tooltip, size, loadPending,
                    raw, rows, grouped, stage, modeLog, loadStarts >>

Next ==
    \/ \E rawRows \in AppInputs : LoadResolved(rawRows)
    \/ LoadRejected
    \/ FlushEffects
    \/ Toggle
    \/ \E sz \in Sizes : Resize(sz)
    \/ \E i \in 1..Len(svg), event \in Pointers : Hover(i, event)
    \/ Leave
    \/ Unmount

Spec == Init /\ [][Next]_vars

-----------------------------------------------------------------------------
(* The pipeline on its own: parseRows, buildGrouped, buildCells step by step *)

InitPipe ==
    /\ mode = "max"
    /\ cells = << >>
    /\ years = << >>
    /\ loading = TRUE
    /\ error = NoError
    /\ svg = << >>
    /\ svgAttr = << 0, 0 >>
    /\ observers = << >>
    /\ tooltip = HiddenTooltip
    /\ size = << 0, 0 >>
    /\ mounted = FALSE
    /\ loadPending = FALSE
    /\ effectPending = FALSE
    /\ raw \in PipeInputs
    /\ rows = << >>
    /\ grouped = << >>
    /\ stage = "raw"
    /\ lastOp = Op("init", 0)
    /\ modeLog = << >>
    /\ everDrawn = FALSE
    /\ loadStarts = 0

PipeFrame ==
    UNCHANGED << mode, loading, error, svg, svgAttr, observers, tooltip, size, mounted,
                 loadPending, effectPending, raw, modeLog, everDrawn, loadStarts >>

PipeParse ==
    /\ stage = "raw"
    /\ LET p == parseRows(raw)
       IN /\ rows' = p.rows
          /\ stage' = IF p.threw THEN "threw" ELSE "parsed"
    /\ lastOp' = Op("parseRows", 0)
    /\ UNCHANGED << grouped, years, cells >>
    /\ PipeFrame

PipeGroup ==
    /\ stage = "parsed"
    /\ LET g == buildGrouped(rows)
       IN /\ grouped' = g.grouped
          /\ years' = g.years
    /\ stage' = "grouped"
    /\ lastOp' = Op("buildGrouped", 0)
    /\ UNCHANGED << rows, cells >>
    /\ PipeFrame

PipeCells ==
    /\ stage = "grouped"
    /\ cells' = buildCells(grouped, years)
    /\ stage' = "cells"
    /\ lastOp' = Op("buildCells", 0)
    /\ UNCHANGED << rows, grouped, years >>
    /\ PipeFrame

NextPipe == PipeParse \/ PipeGroup \/ PipeCells

SpecPipe == InitPipe /\ [][NextPipe]_vars

-----------------------------------------------------------------------------
(* Claims C1 .. C10 *)

AppRunning == stage = "app"

\* the cell of the state's cell array a scene element was drawn for
CellAt(y, m) == CHOOSE c \in { cells[i] : i \in 1..Len(cells) } : c.year = y /\ c.month = m

ExtremeOf(c, m) == IF m = "max" THEN c.absMax ELSE c.absMin

\* C1: the view mode starts as max-view, is always max-view or min-view, every
\* toggle flips it whatever the load state (the toggle is always possible while
\* the component is mounted), and two toggles give back the mode they started from.
C1_ToggleInvolution ==
    /\ [](AppRunning => mode \in { "max", "min" })
    /\ [](AppRunning /\ modeLog = << >> => mode = "max")
    /\ [](AppRunning /\ mounted => ENABLED Toggle)
    /\ [][AppRunning /\ lastOp'.name = "toggle" => mode' # mode]_vars
    /\ [](AppRunning /\ Len(modeLog) >= 1 => mode # modeLog[Len(modeLog)])
    /\ [](AppRunning /\ Len(modeLog) = 2 => mode = modeLog[1])

\* C1 witness: a second toggle was just handled in the error state
C1_Witness ==
    /\ AppRunning
    /\ lastOp.name = "toggle"
    /\ Len(modeLog) = 2
    /\ error # NoError

\* one decimal place of a finite value held in tenths, as the claim reads it
OneDecimal(t) ==
    LET a == IF t.v < 0 THEN 0 - t.v ELSE t.v
        whole == a \div 10
    IN (IF t.v < 0 THEN "-" ELSE "") \o ToString(whole) \o "." \o ToString(a - 10 * whole)

IsOneDecimalOf(text, t) == t.k = "fin" /\ text = OneDecimal(t)

ShownFor(c, m, valueText) ==
    "<strong>Date:</strong> " \o ToString(c.year) \o "-"
      \o (IF c.month < 10 THEN "0" ELSE "") \o ToString(c.month)
      \o "<br/><strong>" \o m \o ":</strong> " \o valueText \o " °C"

\* the tooltip names the cell and the active mode's label (whatever the value text)
ShowsModeOf(tip, c, m) ==
    \E t \in { ExtremeOf(c, m) } :
        tip.innerHTML = ShownFor(c, m, IF t.k = "fin" THEN OneDecimal(t)
                                       ELSE IF t.k = "null" THEN "N/A"
                                       ELSE IF t.v > 0 THEN "Infinity" ELSE "-Infinity")

\* C2: whenever a hover on a non-empty cell is handled, the tooltip becomes
\* visible and shows the cell's year and zero-padded month, the label of the
\* controller's current mode and that mode's extreme value with one decimal
\* ("N/A" for null); e.g. cell (2017, 6) with extreme max 33.0 shows
\* "2017-06" and "max: 33.0 °C" in max-view.
C2_HoverShowsActiveMode ==
    [][ AppRunning /\ lastOp'.name = "hover" =>
          LET el == svg[lastOp'.arg]
              c == CellAt(el.year, el.month)
              t == ExtremeOf(c, mode')
          IN /\ tooltip'.visibility = "visible"
             /\ tooltip'.innerHTML =
                  ShownFor(c, mode', IF t.k = "null" THEN "N/A" ELSE OneDecimal(t))
             /\ t.k # "null" => t.k = "fin"
             /\ (c.year = 2017 /\ c.month = 6 /\ mode' = "max" /\ c.absMax = Fin(330)) =>
                  tooltip'.innerHTML = "<strong>Date:</strong> 2017-06<br/><strong>max:</strong> 33.0 °C"
      ]_vars

\* The part of C2 about the mode alone: the label and the value shown are those
\* of the controller's current mode in every interleaving.
HoverModeConsistent ==
    [][ AppRunning /\ lastOp'.name = "hover" =>
          LET el == svg[lastOp'.arg]
          IN /\ el.hoverMode = mode'
             /\ tooltip'.visibility = "visible"
             /\ ShowsModeOf(tooltip', CellAt(el.year, el.month), mode')
      ]_vars

SceneCells == { i \in 1..Len(svg) : svg[i].cls = "cell" }

NonEmptyCells == { c \in { cells[i] : i \in 1..Len(cells) } : Len(c.days) > 0 }

KeyedColour(c, m) == COLOR_SCALE(ExtremeOf(c, m))

C4_NoDrawBeforeData ==
    AppRunning =>
        /\ loadStarts = 1
        /\ (loading \/ loadPending \/ cells = << >>) =>
              /\ ~everDrawn
              /\ svg = << >>
              /\ svgAttr = << 0, 0 >>
              /\ observers = << >>

\* C4 witness: a render was attempted (a toggle re-ran the draw effect) while
\* the data was still loading
C4_Witness ==
    /\ AppRunning
    /\ lastOp.name = "toggle"
    /\ loading
    /\ loadPending
    /\ ~everDrawn

\* C5: once the error is set it is never cleared, and in the error state the
\* load is over and not started again, loading is false, cells and years are
\* empty and nothing is or was ever drawn.
C5_ErrorIsTerminal ==
    /\ [](AppRunning /\ error # NoError =>
            /\ ~loading
            /\ ~loadPending
            /\ loadStarts = 1
            /\ cells = << >>
            /\ years = << >>
            /\ svg = << >>
            /\ ~everDrawn
            /\ ~effectPending
            /\ observers = << >>)
    /\ [][AppRunning /\ error # NoError => error' = error]_vars

\* C5 witness: in the error state, toggles and then a resize were handled
C5_Witness ==
    /\ AppRunning
    /\ error # NoError
    /\ Len(modeLog) = 2
    /\ lastOp.name = "resize"

\* C6: a source that is reachable but yields no record (no raw rows, or none
\* surviving the parser) ends the load in the error state.
C6_EmptySourceIsError ==
    (AppRunning /\ mounted /\ lastOp.name = "loadResolved" /\ rows = << >>) =>
        error # NoError

NumericText(f) == f.k \in { "dec", "inf" }

GoodTemperatures(r) == NumericText(r.max_temperature) /\ NumericText(r.min_temperature)

AllDatesParse(rawRows) == \A i \in 1..Len(rawRows) : rawRows[i].date.fmt = "ymd"

\* C7: parseRows raises no error and its output is the input with every row
\* dropped whose max_temperature or min_temperature is empty or non-numeric,
\* the other rows kept in their order.
C7_BadTemperatureRowsDropped ==
    (stage \in { "parsed", "threw" } /\ AllDatesParse(raw)) =>
        /\ stage = "parsed"
        /\ Len(rows) = Len(SelectSeq(raw, GoodTemperatures))
        /\ \A i \in 1..Len(rows) :
             LET r == SelectSeq(raw, GoodTemperatures)[i]
             IN rows[i].date = << r.date.y, r.date.m, r.date.d >>

DateParses(r) == r.date.fmt = "ymd"

\* C8: a row whose date does not parse is left out and the load succeeds with
\* the remaining rows: no error reaches the host.
C8_BadDateRowsDropped ==
    (AppRunning /\ mounted /\ lastOp.name = "loadResolved") =>
        /\ error = NoError
        /\ ~loading
        /\ rows = parseRows(SelectSeq(raw, DateParses)).rows

\* C9: every record in a cell's day list has a finite maxTemp and minTemp.
C9_FiniteTemperatures ==
    AppRunning =>
        \A i \in 1..Len(cells) : \A j \in 1..Len(cells[i].days) :
            IsFinite(cells[i].days[j].max) /\ IsFinite(cells[i].days[j].min)

RowYears == { rows[i].year : i \in 1..Len(rows) }

TopYear == CHOOSE y \in RowYears : \A z \in RowYears : z <= y

\* C10: for a non-empty record sequence with maximum year M, years is strictly
\* ascending and holds exactly the record years above M - 10, no group holds a
\* record of year M - 10 or earlier, and years = [M-9 .. M] when all of those
\* years occur.
C10_YearsWindow ==
    (stage \in { "grouped", "cells" } /\ rows # << >>) =>
        /\ \A i \in 1..(Len(years) - 1) : years[i] < years[i + 1]
        /\ { years[i] : i \in 1..Len(years) } = { y \in RowYears : y > TopYear - 10 }
        /\ \A y \in DOMAIN grouped : \A m \in DOMAIN grouped[y] :
             \A j \in 1..Len(grouped[y][m]) :
                /\ grouped[y][m][j].year > TopYear - 10
                /\ grouped[y][m][j].year = y
                /\ grouped[y][m][j].month = m
        /\ ((TopYear - 9)..TopYear \subseteq RowYears) =>
             years = [ i \in 1..10 |-> TopYear - 10 + i ]

\* C10 witness: ten years are kept out of more, from rows in descending order
C10_Witness ==
    /\ stage = "grouped"
    /\ Len(years) = 10
    /\ Cardinality(RowYears) > 10
    /\ rows[1].year > rows[Len(rows)].year

-----------------------------------------------------------------------------
(* Claims C11 .. C20 *)

YearSet == { years[i] : i \in 1..Len(years) }

\* the n largest elements of a set of years
RECURSIVE Largest(_, _)
Largest(S, n) ==
    IF n = 0 \/ S = { } THEN { }
    ELSE LET top == CHOOSE y \in S : \A z \in S : z <= y
         IN { top } \cup Largest(S \ { top }, n - 1)

\* C11 as stated: for an input with at least ten distinct years the year domain
\* has exactly ten columns, the ten largest distinct years that occur, gaps or not.
C11_TenLargestYears ==
    (stage \in { "grouped", "cells" } /\ Cardinality(RowYears) >= 10) =>
        /\ Len(years) = 10
        /\ YearSet = Largest(RowYears, 10)

\* C11 as amended: the year domain holds the years that occur within the ten
\* calendar years ending at the maximum year M; these are the Len(years) largest
\* years that occur, at most ten of them, and exactly ten just when every year
\* of M-9 .. M occurs.
C11_YearsWithinCalendarWindow ==
    (stage \in { "grouped", "cells" } /\ Cardinality(RowYears) >= 10) =>
        /\ YearSet = RowYears \cap ((TopYear - 9)..TopYear)
        /\ Cardinality(YearSet) = Len(years)
        /\ Len(years) <= 10
        /\ YearSet = Largest(RowYears, Len(years))
        /\ (Len(years) = 10) <=> ((TopYear - 9)..TopYear \subseteq RowYears)

\* C11 witness: ten distinct years occur, with a gap inside the window
C11_Witness ==
    /\ stage = "grouped"
    /\ Cardinality(RowYears) = 10
    /\ Len(years) = 9

\* C12: buildCells yields exactly |years| x 12 cells, one per year of years and
\* month of 1..12, year-major and month-minor, and a cell with no days has
\* extremeMax = extremeMin = null.
C12_CellGrid ==
    stage = "cells" =>
        /\ Len(cells) = Len(years) * 12
        /\ \A i \in 1..Len(years) : \A m \in 1..12 :
             /\ cells[(i - 1) * 12 + m].year = years[i]
             /\ cells[(i - 1) * 12 + m].month = m
        /\ \A k \in 1..Len(cells) :
             Len(cells[k].days) = 0 => cells[k].absMax = Null /\ cells[k].absMin = Null

\* C12 witness: a grid of several years with empty and non-empty cells
C12_Witness ==
    /\ stage = "cells"
    /\ Len(years) >= 2
    /\ \E k \in 1..Len(cells) : Len(cells[k].days) = 0
    /\ \E k \in 1..Len(cells) : Len(cells[k].days) > 0

\* a <= b on the numbers that reach a cell
NumLe(a, b) == a = b \/ NumLt(a, b)

RowsOfMonth(y, m) == SelectSeq(rows, LAMBDA d : d.year = y /\ d.month = m)

\* C13: a cell's days are the parsed records of its year and month in file
\* order (and of no year outside the window); when there are days, extremeMax
\* is the largest maxTemp and extremeMin the smallest minTemp among them, so
\* extremeMin <= extremeMax when every day has min <= max; the days
\* (2017-06-01, 32.5, 27.1), (2017-06-02, 33.0, 26.5) give 33.0 and 26.5.
C13_CellDaysAndExtremes ==
    stage = "cells" =>
        \A k \in 1..Len(cells) :
            LET c == cells[k]
                n == Len(c.days)
            IN /\ c.days = RowsOfMonth(c.year, c.month)
               /\ c.year > TopYear - 10
               /\ n > 0 =>
                    /\ \E j \in 1..n : c.days[j].max = c.absMax
                    /\ \A j \in 1..n : NumLe(c.days[j].max, c.absMax)
                    /\ \E j \in 1..n : c.days[j].min = c.absMin
                    /\ \A j \in 1..n : NumLe(c.absMin, c.days[j].min)
                    /\ (\A j \in 1..n : NumLe(c.days[j].min, c.days[j].max)) =>
                          NumLe(c.absMin, c.absMax)
               /\ (/\ c.year = 2017 /\ c.month = 6 /\ n = 2
                   /\ c.days[1].max = Fin(325) /\ c.days[1].min = Fin(271)
                   /\ c.days[2].max = Fin(330) /\ c.days[2].min = Fin(265)) =>
                     c.absMax = Fin(330) /\ c.absMin = Fin(265)

\* C13 witness: the cell (2017, 6) of the example, beside a record of another year
C13_Witness ==
    /\ stage = "cells"
    /\ Len(rows) = 3
    /\ \E k \in 1..Len(cells) :
         /\ cells[k].year = 2017 /\ cells[k].month = 6 /\ Len(cells[k].days) = 2
         /\ cells[k].days[1].max = Fin(325)
         /\ cells[k].days[2].min = Fin(265)
         /\ cells[k].absMax = Fin(330)


\* the cell groups of the scene drawn for the cell c
GroupsOf(c) ==
    { i \in SceneCells : svg[i].year = c.year /\ svg[i].month = c.month }

AllCells == { cells[i] : i \in 1..Len(cells) }

SceneDrawn == AppRunning /\ svg # << >>

\* C14: in every rendered scene each cell of years x months 1..12 has its
\* place in the grid, the ones without days included: a cell whose value is
\* null is drawn with the neutral fill instead of being left out.
C14_EveryCellDrawn ==
    SceneDrawn =>
        \A c \in AllCells :
            /\ GroupsOf(c) # {}
            /\ ExtremeOf(c, mode).k = "null" =>
                 \A i \in GroupsOf(c) : svg[i].fill = NeutralFill

CellLayers == << "rect.bg", "path.max", "path.min", "rect.overlay" >>

\* C15: after any render the cells that own a hover overlay are exactly the
\* cells with at least one day: each of them has one group whose layers are
\* the background, the two sparkline paths and, last, one overlay; no cell
\* without days has a group, an overlay or a sparkline.
C15_OverlaysOnNonEmptyCells ==
    SceneDrawn =>
        /\ \A c \in NonEmptyCells :
             /\ Cardinality(GroupsOf(c)) = 1
             /\ \A i \in GroupsOf(c) :
                  /\ svg[i].kids = CellLayers
                  /\ svg[i].kids[Len(svg[i].kids)] = "rect.overlay"
                  /\ Cardinality({ j \in 1..Len(svg[i].kids) :
                                     svg[i].kids[j] = "rect.overlay" }) = 1
        /\ \A c \in AllCells \ NonEmptyCells : GroupsOf(c) = {}
        /\ \A i \in SceneCells :
             \E c \in NonEmptyCells : c.year = svg[i].year /\ c.month = svg[i].month

\* C15 witness: a scene is drawn for cells of which some have days and some
\* have none
C15_Witness ==
    /\ SceneDrawn
    /\ SceneCells # {}
    /\ AllCells \ NonEmptyCells # {}


CountOf(scene, cls) == Cardinality({ i \in 1..Len(scene) : scene[i].cls = cls })

\* C16: rendering replaces the prior output: after any sequence of renders
\* the scene is the scene one render of the last cells, years, mode and size
\* draws on an empty surface; rendering it again with the same arguments leaves
\* it as it is; there is one gradient definition, one legend, one label per
\* year, twelve month labels and one group of four layers per non-empty cell.
C16_RenderReplaces ==
    SceneDrawn =>
        /\ svg = drawMatrix(<< >>, cells, years, mode, size[1], size[2])
        /\ svgAttr = size
        /\ drawMatrix(svg, cells, years, mode, size[1], size[2]) = svg
        /\ CountOf(svg, "defs") = 1
        /\ CountOf(svg, "legend") = 1
        /\ CountOf(svg, "year-label") = Len(years)
        /\ CountOf(svg, "month-label") = 12
        /\ CountOf(svg, "cell") = Cardinality(NonEmptyCells)
        /\ \A i \in SceneCells : Len(svg[i].kids) = Len(CellLayers)

\* C16 witness: the scene has been rendered by the load, by two toggles and
\* then by a resize notification
C16_Witness ==
    /\ SceneDrawn
    /\ Len(modeLog) = 2
    /\ lastOp.name = "resize"
    /\ SceneCells # {}


\* the colour of every cell group of a scene
ColoursOf(scene) ==
    { << scene[i].year, scene[i].month, scene[i].fill >> :
        i \in { j \in 1..Len(scene) : scene[j].cls = "cell" } }

\* C17: once the load has settled, no step changes the cell array or the
\* years (toggle, resize, render, hover, leave); a resize leaves the mode as it
\* is and every drawn cell has the same colour before and after it.
C17_DataAndColoursStable ==
    [][ AppRunning =>
          /\ ~loadPending => (cells' = cells /\ years' = years)
          /\ lastOp'.name \in { "toggle", "resize", "flushEffects", "hover", "leave" } =>
                (cells' = cells /\ years' = years)
          /\ lastOp'.name = "resize" =>
                /\ mode' = mode
                /\ svg # << >> =>
                     (svg' # << >> /\ ColoursOf(svg') = ColoursOf(svg))
      ]_vars

\* C17 witness: a resize has been handled in min-view with a cell drawn whose
\* colour is not the same in the two modes
C17_Witness ==
    /\ SceneDrawn
    /\ lastOp.name = "resize"
    /\ mode = "min"
    /\ \E t \in ColoursOf(svg) :
         KeyedColour(CellAt(t[1], t[2]), "max") # KeyedColour(CellAt(t[1], t[2]), "min")


\* C18: when the component is torn down the resize subscription is released
\* and nothing is rendered afterwards: no step after the teardown, a resize of
\* the container included, touches the drawing surface, and a resize while the
\* container is not in the document draws nothing.
C18_NoRenderAfterTeardown ==
    /\ []((AppRunning /\ ~mounted) => (observers = << >> /\ svg = << >>))
    /\ [][ (AppRunning /\ ~mounted) => UNCHANGED << svg, svgAttr, observers, everDrawn >>
       ]_vars
    /\ [][ (AppRunning /\ lastOp'.name = "resize"
              /\ ~ContainerMounted(loading, error, mounted)) =>
             UNCHANGED << svg, svgAttr, everDrawn >>
       ]_vars

\* C18 witness: the container is resized after the teardown of a component
\* that had drawn its scene
C18_Witness ==
    /\ AppRunning
    /\ ~mounted
    /\ everDrawn
    /\ lastOp.name = "resize"

\* C20: at most one resize subscription is active at any moment, and its
\* render closure is the one of the latest effect run (the current cells,
\* years and mode), so the scene, redrawn by a resize after a toggle, is
\* never keyed to a stale mode.
C20_OneCurrentObserver ==
    AppRunning =>
        /\ Len(observers) <= 1
        /\ \A i \in 1..Len(observers) : observers[i] = Closure(cells, years, mode)
        /\ \A i \in SceneCells :
             /\ svg[i].hoverMode = mode
             /\ svg[i].fill = CellFill(CellAt(svg[i].year, svg[i].month), mode)

\* C20 witness: a resize is handled after a toggle to min-view by the one
\* observer
C20_Witness ==
    /\ SceneDrawn
    /\ lastOp.name = "resize"
    /\ modeLog # << >>
    /\ mode = "min"
    /\ Len(observers) = 1
    /\ SceneCells # {}


\* a surface not larger than the margins in one direction at least
Degenerate(sz) ==
    \/ sz[1] <= MARGIN.left + MARGIN.right
    \/ sz[2] <= MARGIN.top + MARGIN.bottom

\* C19: on a degenerate surface the render does not fail, the usable width
\* and height and every band width and height are at least 0, the mini charts
\* have no negative coordinate, and no cells are drawn.
C19_DegenerateSizeClamped ==
    (SceneDrawn /\ Degenerate(svgAttr)) =>
        /\ ChartWidth(svgAttr[1]) >= 0
        /\ ChartHeight(svgAttr[2]) >= 0
        /\ Bandwidth(XScale(years, svgAttr[1])).n >= 0
        /\ Bandwidth(YScale(svgAttr[2])).n >= 0
        /\ \A i \in SceneCells :
             /\ svg[i].w.n >= 0
             /\ svg[i].h.n >= 0
             /\ MiniXRange(svg[i].w)[2].n >= 0
             /\ MiniYRange(svg[i].h)[1].n >= 0
        /\ SceneCells = {}

\* the part of C19 the code keeps: the render of a degenerate surface
\* completes, and the band widths d3 computes are never negative
DegenerateRenderCompletes ==
    (SceneDrawn /\ Degenerate(svgAttr)) =>
        /\ svg = drawMatrix(<< >>, cells, years, mode, svgAttr[1], svgAttr[2])
        /\ \A i \in SceneCells : svg[i].w.n >= 0 /\ svg[i].h.n >= 0


\* C21: for a non-empty parsed record sequence the maximum year is in years,
\* every year of years is a key of the grouped map (the monthMap guard of
\* buildCells skips none) and has a cell with days, so the cell array is not
\* empty and the draw effect's guard on cells.length does not return early.
C21_NoYearSkipped ==
    /\ (stage \in { "grouped", "cells" } /\ rows # << >>) =>
          /\ TopYear \in YearSet
          /\ \A y \in YearSet : y \in DOMAIN grouped
    /\ (stage = "cells" /\ rows # << >>) =>
          /\ \A y \in YearSet :
               \E k \in 1..Len(cells) : cells[k].year = y /\ Len(cells[k].days) > 0
          /\ cells # << >>
          /\ ~DrawEffectReturnsEarly(cells, TRUE)

\* C21 witness: cells were built from records spanning more than the window,
\* so that some record years are not in years
C21_Witness ==
    /\ stage = "cells"
    /\ rows # << >>
    /\ RowYears \ YearSet # {}
    /\ Cardinality(YearSet) >= 2


\* C22: the tooltip starts hidden; only a hover and a leave change it: a
\* hover makes it visible with the hovered cell's date and value, a leave
\* hides it and keeps the rest; loads, toggles, resizes and re-renders leave
\* it as it is, so a hidden tooltip stays hidden until the next hover.
C22_TooltipFrame ==
    /\ AppRunning => tooltip = HiddenTooltip
    /\ [][ AppRunning =>
             /\ lastOp'.name \in { "toggle", "resize", "flushEffects",
                                   "loadResolved", "loadRejected" } =>
                   tooltip' = tooltip
             /\ lastOp'.name = "hover" =>
                   LET el == svg[lastOp'.arg]
                   IN /\ tooltip'.visibility = "visible"
                      /\ ShowsModeOf(tooltip', CellAt(el.year, el.month), mode')
             /\ lastOp'.name = "leave" =>
                   tooltip' = [ tooltip EXCEPT !.visibility = "hidden" ]
             /\ (tooltip.visibility = "hidden" /\ lastOp'.name # "hover") =>
                   tooltip'.visibility = "hidden"
       ]_vars

\* C22 witness: a toggle was handled while the tooltip was visible
C22_Witness ==
    /\ AppRunning
    /\ lastOp.name = "toggle"
    /\ tooltip.visibility = "visible"
    /\ SceneCells # {}

====
